---- MODULE Spec2Model ----
(***************************************************************************)
(* Model of the cf-ai-taskcoach worker and its browser client.             *)
(*                                                                         *)
(*   src/src/index.ts        single-conversation worker (custom stream)    *)
(*   src/unnamed/part_001    multi-conversation worker (TransformStream)   *)
(*   src/unnamed/part_000    single-conversation browser client            *)
(*   src/public/chat.js      multi-conversation browser client             *)
(*                                                                         *)
(* Two specifications share the text operators below:                      *)
(*   SpecStream  one inference stream cut into arbitrary byte chunks,      *)
(*               relayed by the worker and re-parsed by the client;        *)
(*   Spec        the HTTP operations of the multi-conversation worker      *)
(*               over the key-value store.                                 *)
(* Text is a sequence of one-character strings; a byte stream is a         *)
(* sequence of bytes, an ASCII byte being written as its character.        *)
(***************************************************************************)
EXTENDS Integers, Sequences, FiniteSets, TLC

VARIABLES
  \* ---- SpecStream: worker side
  variant,        \* "single" (index.ts + part_000) or "multi" (part_001 + chat.js)
  aiBytes,        \* the bytes the inference stream will deliver
  rpos,           \* how many of them the worker has read
  cur,            \* the chunk of the read in progress (value)
  spc,            \* worker position: "read", "fwd", "acc", "closed"
  queue,          \* chunks enqueued to the HTTP response, not yet read by the client
  decPending,     \* bytes held inside the worker's TextDecoder
  buffer,         \* let buffer
  responseText,   \* let responseText
  decoded,        \* all text the decoder has returned so far (history)
  handed,         \* all lines the read loop handed to the accumulator (history)
  \* ---- SpecStream: browser side
  cpc,            \* client position: "read", "done"
  cDecPending,    \* bytes held inside the client's TextDecoder
  cBuffer,        \* sendMessage: let buffer
  cResponseText,  \* sendMessage: let responseText
  cDecoded,       \* all text the client's decoder has returned (history)
  cHanded,        \* all lines the client loop handed on (history)
  \* ---- Spec: the worker's HTTP operations
  store,          \* env.CHAT_HISTORY: userId -> the value under history:<userId>
  req,            \* the chat and delete requests in progress, by slot
  nChats,         \* chat requests received so far
  \* ---- SpecBrowser: the multi-conversation client (chat.js)
  browser         \* its globals, the arrays they refer to, its requests in flight

streamVars == <<variant, aiBytes, rpos, cur, spc, queue, decPending, buffer,
                responseText, decoded, handed, cpc, cDecPending, cBuffer,
                cResponseText, cDecoded, cHanded>>

reqVars == <<store, req, nChats>>

vars == <<streamVars, reqVars, browser>>

(***************************************************************************)
(* Bounds                                                                  *)
(***************************************************************************)
\* newline-terminated lines per generated stream (an unterminated tail may follow)
MaxLines == 1
\* largest chunk one read returns
MaxChunk == 3
\* chunks the response body holds before the worker's next read waits
MaxQueue == 1
\* chat requests per run
MaxChats == 3

\* chat requests served in SpecFault
MaxFaultChats == 1

\* messages sent from the browser in SpecBrowser
MaxTurns == 2
\* selectChat fetches in flight at one time in SpecBrowser
MaxPending == 2

\* chat requests served in SpecRace
MaxRaceChats == 2

(***************************************************************************)
(* Characters and bytes                                                    *)
(***************************************************************************)
NL == "\n"
\* the two bytes of U+00E9 and the character they decode to
LeadByte == "C3"
ContByte == "A9"
EAcute == "e'"
\* U+FFFD, what the decoder returns for a malformed sequence
Replacement == "FFFD"

DataPrefix == <<"d", "a", "t", "a", ":", " ">>
DoneLine == DataPrefix \o <<"[", "D", "O", "N", "E", "]">>
RespOpen == <<"{", "\"", "r", "e", "s", "p", "o", "n", "s", "e", "\"", ":", "\"">>
RespClose == <<"\"", "}">>

(***************************************************************************)
(* String.prototype operations used by the parser                          *)
(***************************************************************************)
IsSpace(c) == c \in {" ", "\r", "\t", NL}

RECURSIVE trimStart(_)
trimStart(s) ==
  IF s = <<>> THEN s
  ELSE IF IsSpace(Head(s)) THEN trimStart(Tail(s)) ELSE s

RECURSIVE trimEnd(_)
trimEnd(s) ==
  IF s = <<>> THEN s
  ELSE IF IsSpace(s[Len(s)]) THEN trimEnd(SubSeq(s, 1, Len(s) - 1)) ELSE s

trim(s) == trimEnd(trimStart(s))

startsWith(s, p) == Len(s) >= Len(p) /\ SubSeq(s, 1, Len(p)) = p

endsWith(s, p) == Len(s) >= Len(p) /\ SubSeq(s, Len(s) - Len(p) + 1, Len(s)) = p

slice(s, n) == SubSeq(s, n + 1, Len(s))

\* s.split("\n"): k newlines give k + 1 segments
RECURSIVE split(_)
split(s) ==
  IF \A i \in 1..Len(s) : s[i] # NL THEN <<s>>
  ELSE LET i == CHOOSE j \in 1..Len(s) : s[j] = NL /\ \A k \in 1..(j - 1) : s[k] # NL
       IN <<SubSeq(s, 1, i - 1)>> \o split(SubSeq(s, i + 1, Len(s)))

(***************************************************************************)
(* JSON.parse on the texts that occur in the streams below: an object with *)
(* a string member "response", the empty object, or a syntax error.        *)
(***************************************************************************)
JSONparse(s) ==
  IF /\ startsWith(s, RespOpen)
     /\ endsWith(s, RespClose)
     /\ Len(s) >= Len(RespOpen) + Len(RespClose)
     /\ \A i \in (Len(RespOpen) + 1)..(Len(s) - Len(RespClose)) : s[i] \notin {"\"", "\\"}
  THEN [ok |-> TRUE,
        response |-> SubSeq(s, Len(RespOpen) + 1, Len(s) - Len(RespClose))]
  ELSE IF s = <<"{", "}">> THEN [ok |-> TRUE, response |-> <<>>]
  ELSE [ok |-> FALSE, response |-> <<>>]

(***************************************************************************)
(* TextDecoder("utf-8").decode(bytes, {stream: true}) started with         *)
(* `pending` bytes held from the previous call.                            *)
(***************************************************************************)
RECURSIVE decodeFrom(_, _, _)
decodeFrom(pending, bytes, out) ==
  IF bytes = <<>> THEN [text |-> out, pending |-> pending]
  ELSE LET b == Head(bytes) IN
    IF pending = <<>>
    THEN IF b = LeadByte THEN decodeFrom(<<b>>, Tail(bytes), out)
         ELSE IF b = ContByte THEN decodeFrom(<<>>, Tail(bytes), Append(out, Replacement))
         ELSE decodeFrom(<<>>, Tail(bytes), Append(out, b))
    ELSE IF b = ContByte THEN decodeFrom(<<>>, Tail(bytes), Append(out, EAcute))
         ELSE decodeFrom(<<>>, bytes, Append(out, Replacement))

decode(pending, bytes) == decodeFrom(pending, bytes, <<>>)

(***************************************************************************)
(* The line parser and the accumulator                                     *)
(***************************************************************************)
\* parseChunk without the carried buffer: each chunk is split on its own
parseChunkNoCarry(buf, text) ==
  LET parts == split(text)
  IN [lines |-> SubSeq(parts, 1, Len(parts) - 1), buffer |-> parts[Len(parts)]]

\* buffer += text; lines = buffer.split("\n"); buffer = lines.pop() || ""
parseChunk(buf, text) ==
  LET parts == split(buf \o text)
  IN [lines |-> SubSeq(parts, 1, Len(parts) - 1), buffer |-> parts[Len(parts)]]

\* processLine that takes only lines that start with "data: "
processLineDataOnly(text, line) ==
  IF trim(line) = <<>> \/ line = DoneLine THEN text
  ELSE LET jsonData == JSONparse(trim(slice(line, 6)))
       IN IF startsWith(line, DataPrefix) /\ jsonData.ok /\ jsonData.response # <<>>
          THEN text \o jsonData.response
          ELSE text

\* the body of `for (const line of lines)`
processLine(text, line) ==
  IF trim(line) = <<>> \/ line = DoneLine THEN text
  ELSE LET jsonStr == IF startsWith(line, DataPrefix) THEN trim(slice(line, 6))
                      ELSE trim(line)
           jsonData == JSONparse(jsonStr)
       IN IF jsonStr = <<>> THEN text
          ELSE IF jsonData.ok /\ jsonData.response # <<>> THEN text \o jsonData.response
          ELSE text

RECURSIVE accumulate(_, _)
accumulate(text, lines) ==
  IF lines = <<>> THEN text
  ELSE accumulate(processLine(text, Head(lines)), Tail(lines))

\* "Process any remaining buffered content"
flushBuffer(text, buf) ==
  IF trim(buf) # <<>> /\ buf # DoneLine
  THEN LET jsonStr == IF startsWith(buf, DataPrefix) THEN trim(slice(buf, 6))
                      ELSE trim(buf)
           jsonData == JSONparse(jsonStr)
       IN IF jsonData.ok /\ jsonData.response # <<>> THEN text \o jsonData.response
          ELSE text
  ELSE text

(***************************************************************************)
(* The streams the inference endpoint may deliver                          *)
(***************************************************************************)
EventLine(s) == DataPrefix \o RespOpen \o s \o RespClose

LineCatalog ==
  { EventLine(<<"a">>),                    \* data: {"response":"a"}
    EventLine(<<LeadByte, ContByte>>),     \* data: {"response":"e-acute"} as bytes
    EventLine(<<>>),                       \* data: {"response":""}
    <<>>,                                  \* blank line
    DoneLine,                              \* data: [DONE]
    DataPrefix \o <<"{", "\"", "r">>,      \* data: {"r      (not JSON)
    RespOpen \o <<"b">> \o RespClose }     \* {"response":"b"} without prefix

TailCatalog ==
  { <<>>, EventLine(<<"a">>), DoneLine }

RECURSIVE joinLines(_)
joinLines(ls) ==
  IF ls = <<>> THEN <<>> ELSE Head(ls) \o <<NL>> \o joinLines(Tail(ls))

LineSeqs == UNION { [1..n -> LineCatalog] : n \in 0..MaxLines }

Streams == { joinLines(ls) \o t : ls \in LineSeqs, t \in TailCatalog }


(***************************************************************************)
(* Spec: values of the HTTP operations                                     *)
(***************************************************************************)
Users == {"u1"}

\* the users with a key in the CHAT_HISTORY namespace
AllUsers == {"u1", "u2"}
ChatIds == {"c1", "c2"}
\* the requests in progress at one time
Reqs == {"r1"}

\* a query parameter that is absent or empty (both are falsy)
Missing == ""

\* JSON values of a request body, by typeof
Str(x) == [type |-> "string", val |-> x]
Num7 == [type |-> "number", val |-> <<"7">>]
Undef == [type |-> "undefined", val |-> <<>>]

SYSTEM_PROMPT == <<"Y", "o", "u">>
\* expirationTtl: 60 * 60 * 24 * 7
SevenDays == 604800
\* String({}) of an object without content
ObjectString == <<"[object Object]">>

\* the elements a messages array may hold: a bare string, an object with
\* role and content, an object with neither, a number
ItemString == [type |-> "string", val |-> <<"q">>, role |-> Missing, content |-> Undef]
ItemSystem == [type |-> "object", val |-> <<>>, role |-> "system", content |-> Str(<<"s">>)]
ItemEmpty == [type |-> "object", val |-> <<>>, role |-> Missing, content |-> Undef]
ItemNumber == [type |-> "number", val |-> <<"7">>, role |-> Missing, content |-> Undef]
\* an object whose role is none of the three roles of a Message
ItemTool == [type |-> "object", val |-> <<>>, role |-> "tool", content |-> Str(<<"t">>)]

MessageArrays ==
  { <<>>,
    <<ItemString>>,
    <<ItemString, ItemSystem>>,
    <<ItemSystem, ItemString>>,
    <<ItemEmpty, ItemNumber>>,
    <<ItemTool>> }

\* messages is an array, or something else (absent, a string, ...)
MessageInputs ==
  { [isArray |-> TRUE, items |-> a] : a \in MessageArrays }
    \cup { [isArray |-> FALSE, items |-> <<>>] }

\* request.json().catch(() => null) of the bodies a client may post
ValidBodies ==
  { [type |-> "object", userId |-> Str(u), chatId |-> Str(c), messages |-> m] :
      u \in Users, c \in ChatIds, m \in MessageInputs }

NoMessages == [isArray |-> FALSE, items |-> <<>>]

InvalidBodies ==
  { [type |-> "null", userId |-> Undef, chatId |-> Undef, messages |-> NoMessages],
    [type |-> "string", userId |-> Undef, chatId |-> Undef, messages |-> NoMessages],
    [type |-> "array", userId |-> Undef, chatId |-> Undef, messages |-> NoMessages],
    [type |-> "object", userId |-> Undef, chatId |-> Str("c1"), messages |-> NoMessages],
    [type |-> "object", userId |-> Num7, chatId |-> Str("c1"), messages |-> NoMessages],
    [type |-> "object", userId |-> Str(""), chatId |-> Str("c1"), messages |-> NoMessages],
    [type |-> "object", userId |-> Str("u1"), chatId |-> Undef, messages |-> NoMessages],
    [type |-> "object", userId |-> Str("u1"), chatId |-> Num7, messages |-> NoMessages] }

Bodies == ValidBodies \cup InvalidBodies

\* the inference streams of Spec, as the chunks they arrive in
EventChunk == DataPrefix \o RespOpen \o <<"r">> \o RespClose

AIStreams ==
  { <<>>,
    << DoneLine \o <<NL>> >>,
    << EventChunk \o <<NL>>, <<NL>> \o DoneLine \o <<NL>> >>,
    << DataPrefix \o RespOpen, <<"r">> \o RespClose \o <<NL>> >>,
    << EventChunk >> }

(***************************************************************************)
(* The key-value store and the record kept under history:<userId>          *)
(***************************************************************************)
\* a UserChats object: its members in insertion order
EmptyChats == <<>>

hasChat(uc, c) == \E i \in 1..Len(uc) : uc[i].chatId = c

chatOf(uc, c) == uc[CHOOSE i \in 1..Len(uc) : uc[i].chatId = c]

\* a delete that empties the whole record
deleteAll(uc, c) == <<>>

\* delete userChats[chatId]
deleteKey(uc, c) == SelectSeq(uc, LAMBDA e : e.chatId # c)

\* a save that keeps the request's own conversation only
setMessagesOnly(uc, c, msgs) == << [chatOf(uc, c) EXCEPT !.messages = msgs] >>

\* userChats[chatId].messages = messages
setMessages(uc, c, msgs) ==
  [i \in 1..Len(uc) |-> IF uc[i].chatId = c THEN [uc[i] EXCEPT !.messages = msgs]
                        ELSE uc[i]]

\* JSON.stringify / JSON.parse of a UserChats object
JSONstringify(uc) == [json |-> uc, valid |-> TRUE]

\* a stored text JSON.parse throws on
Corrupt == [json |-> <<>>, valid |-> FALSE]

parses(text) == text.valid

parseStored(text) == text.json

NoEntry == [present |-> FALSE, value |-> JSONstringify(EmptyChats), expirationTtl |-> 0]

\* a put without an expiry
kvPutNoExpiry(kv, u, value, ttl) ==
  [kv EXCEPT ![u] = [present |-> TRUE, value |-> value, expirationTtl |-> 0]]

\* env.CHAT_HISTORY.put(`history:${userId}`, value, { expirationTtl })
kvPut(kv, u, value, ttl) ==
  [kv EXCEPT ![u] = [present |-> TRUE, value |-> value, expirationTtl |-> ttl]]

(***************************************************************************)
(* The steps of handleChatRequest                                          *)
(***************************************************************************)
truthy(v) ==
  \/ v.type = "number"
  \/ v.type = "string" /\ v.val # ""

\* validation that asks for a userId only
chatErrorNoChatId(body) ==
  IF body.type \notin {"object", "array"} THEN "Invalid JSON body"
  ELSE IF ~truthy(body.userId) \/ body.userId.type # "string"
       THEN "Missing or invalid userId"
  ELSE ""

\* the 400 answers of handleChatRequest; "" when the body is accepted
chatError(body) ==
  IF body.type \notin {"object", "array"} THEN "Invalid JSON body"
  ELSE IF ~truthy(body.userId) \/ body.userId.type # "string"
       THEN "Missing or invalid userId"
  ELSE IF ~truthy(body.chatId) \/ body.chatId.type # "string"
       THEN "Missing or invalid chatId"
  ELSE ""

\* incoming.map((m) => ...)
normalize(m) ==
  IF m.type = "string" THEN [role |-> "user", content |-> m.val]
  ELSE IF m.type = "object"
       THEN [role |-> IF m.role = Missing THEN "user" ELSE m.role,
             content |-> IF m.content.type = "undefined" THEN ObjectString
                         ELSE m.content.val]
  ELSE [role |-> "user", content |-> m.val]

incomingMessages(input) ==
  IF input.isArray THEN [i \in 1..Len(input.items) |-> normalize(input.items[i])]
  ELSE <<>>

\* `Chat ${Object.keys(userChats).length + 1}`
chatName(n) == [prefix |-> "Chat ", number |-> n]

newChatNumberFirstGap(uc) ==
  CHOOSE n \in 1..(Len(uc) + 1) :
    /\ \A i \in 1..Len(uc) : uc[i].name.number # n
    /\ \A m \in 1..(n - 1) : \E i \in 1..Len(uc) : uc[i].name.number = m

newChatNumber(uc) == Len(uc) + 1

\* the body of the try block that follows the store read
\* the catch of that try block: userChats and history keep their initial values
loadFailed == [userChats |-> EmptyChats, history |-> <<>>, created |-> FALSE, failed |-> TRUE]

\* a load that reads the history and never creates the conversation
loadChatNoCreate(entry, c) ==
  LET uc == IF entry.present THEN parseStored(entry.value) ELSE EmptyChats
  IN IF entry.present /\ ~parses(entry.value) THEN loadFailed
     ELSE [userChats |-> uc,
           history |-> IF hasChat(uc, c) THEN chatOf(uc, c).messages ELSE <<>>,
           created |-> FALSE,
           failed |-> FALSE]

loadChat(entry, c) ==
  LET uc == IF entry.present THEN parseStored(entry.value) ELSE EmptyChats
  IN IF entry.present /\ ~parses(entry.value) THEN loadFailed
     ELSE IF hasChat(uc, c)
     THEN [userChats |-> uc, history |-> chatOf(uc, c).messages, created |-> FALSE,
           failed |-> FALSE]
     ELSE [userChats |-> Append(uc, [chatId |-> c,
                                     name |-> chatName(newChatNumber(uc)),
                                     messages |-> <<>>]),
           history |-> <<>>,
           created |-> TRUE,
           failed |-> FALSE]

mergeReversed(history, incoming) == incoming \o history

\* [...history, ...incomingMessages]
mergeMessages(history, incoming) == history \o incoming

hasSystem(msgs) == \E i \in 1..Len(msgs) : msgs[i].role = "system"

systemMessage == [role |-> "system", content |-> SYSTEM_PROMPT]

ensureSystemAlways(msgs) == <<systemMessage>> \o msgs

\* if (!messages.some((msg) => msg.role === "system")) messages.unshift(...)
ensureSystemPrompt(msgs) ==
  IF hasSystem(msgs) THEN msgs ELSE <<systemMessage>> \o msgs

(***************************************************************************)
(* Spec: state                                                             *)
(***************************************************************************)
\* chat.js after its top-level statements: userId and currentChatId null,
\* chatHistory a new empty array (array 1 of heap), no chats, an empty
\* cache (0: no entry), nothing in flight
NoSend == [state |-> "none", chatId |-> Missing, messages |-> <<>>, reply |-> <<>>]

NoBrowser ==
  [loaded |-> FALSE,
   userId |-> Missing,
   currentChatId |-> Missing,
   chatHistory |-> 1,
   heap |-> << [owner |-> Missing, items |-> <<>>] >>,
   chats |-> <<>>,
   isProcessing |-> FALSE,
   chatCache |-> [c \in ChatIds |-> 0],
   pending |-> <<>>,
   send |-> NoSend,
   deleting |-> {},
   used |-> {},
   turns |-> 0]

NoBody == [type |-> "none", userId |-> Undef, chatId |-> Undef, messages |-> NoMessages]

\* a request slot: the request's inputs, the handler's locals, its response
IdleReq ==
  [kind |-> "none", pc |-> "idle", body |-> NoBody,
   userId |-> Missing, chatId |-> Missing,
   incoming |-> <<>>, userChats |-> EmptyChats, history |-> <<>>,
   created |-> FALSE, messages |-> <<>>, stream |-> <<>>, sent |-> <<>>,
   buffer |-> <<>>, responseText |-> <<>>, putValue |-> JSONstringify(EmptyChats),
   ops |-> <<>>, status |-> 0, error |-> "", result |-> <<>>,
   out |-> "none", save |-> "none", faults |-> {}, decPending |-> <<>>]

\* no stream of SpecStream is open
StreamClosed ==
  /\ aiBytes = <<>>
  /\ rpos = 0
  /\ cur = <<>>
  /\ spc = "closed"
  /\ queue = <<>>
  /\ decPending = <<>>
  /\ buffer = <<>>
  /\ responseText = <<>>
  /\ decoded = <<>>
  /\ handed = <<>>
  /\ cpc = "done"
  /\ cDecPending = <<>>
  /\ cBuffer = <<>>
  /\ cResponseText = <<>>
  /\ cDecoded = <<>>
  /\ cHanded = <<>>

StreamIdle ==
  /\ variant = "multi"
  /\ StreamClosed

ReqIdle ==
  /\ store = [u \in AllUsers |-> NoEntry]
  /\ req = [r \in Reqs |-> IdleReq]
  /\ nChats = 0

(***************************************************************************)
(* SpecStream                                                              *)
(***************************************************************************)
InitStream ==
  /\ variant \in {"single", "multi"}
  /\ aiBytes \in Streams
  /\ rpos = 0
  /\ cur = <<>>
  /\ spc = "read"
  /\ queue = <<>>
  /\ decPending = <<>>
  /\ buffer = <<>>
  /\ responseText = <<>>
  /\ decoded = <<>>
  /\ handed = <<>>
  /\ cpc = "read"
  /\ cDecPending = <<>>
  /\ cBuffer = <<>>
  /\ cResponseText = <<>>
  /\ cDecoded = <<>>
  /\ cHanded = <<>>
  /\ ReqIdle
  /\ browser = NoBrowser

clientVars == <<cpc, cDecPending, cBuffer, cResponseText, cDecoded, cHanded>>
parserVars == <<decPending, buffer, responseText, decoded, handed>>

\* reader.read() resolves with a chunk (index.ts:194); the pipe hands a chunk
\* to transform (part_001:279)
SrvRead ==
  /\ spc = "read"
  /\ rpos < Len(aiBytes)
  /\ Len(queue) < MaxQueue
  /\ \E n \in 0..MaxChunk :
       /\ rpos + n <= Len(aiBytes)
       /\ cur' = SubSeq(aiBytes, rpos + 1, rpos + n)
       /\ rpos' = rpos + n
  /\ spc' = "fwd"
  /\ UNCHANGED <<variant, aiBytes, queue, parserVars, clientVars, reqVars, browser>>

\* enqueue that forwards only chunks that carry bytes
enqueueNonEmpty(q, chunk) == IF chunk = <<>> THEN q ELSE Append(q, chunk)

\* controller.enqueue(value)
enqueue(q, chunk) == Append(q, chunk)

SrvEnqueue ==
  /\ spc = "fwd"
  /\ queue' = enqueue(queue, cur)
  /\ spc' = "acc"
  /\ UNCHANGED <<variant, aiBytes, rpos, cur, parserVars, clientVars, reqVars, browser>>

\* the decoder the chunk is decoded with: index.ts creates one before the
\* loop (line 191), part_001 creates one inside transform (line 284)
decoderState(v, pending) == IF v = "multi" THEN <<>> ELSE pending

SrvAccumulate ==
  /\ spc = "acc"
  /\ LET d == decode(decoderState(variant, decPending), cur)
         p == parseChunk(buffer, d.text)
     IN /\ decPending' = d.pending
        /\ decoded' = decoded \o d.text
        /\ buffer' = p.buffer
        /\ handed' = handed \o p.lines
        /\ responseText' = accumulate(responseText, p.lines)
  /\ spc' = "read"
  /\ UNCHANGED <<variant, aiBytes, rpos, cur, queue, clientVars, reqVars, browser>>

\* done: the remaining buffer is processed, the response body is closed
SrvEnd ==
  /\ spc = "read"
  /\ rpos = Len(aiBytes)
  /\ responseText' = flushBuffer(responseText, buffer)
  /\ spc' = "closed"
  /\ UNCHANGED <<variant, aiBytes, rpos, cur, queue, decPending, buffer,
                 decoded, handed, clientVars, reqVars, browser>>

\* sendMessage: one iteration of the read loop
CliRead ==
  /\ cpc = "read"
  /\ queue # <<>>
  /\ LET d == decode(cDecPending, Head(queue))
         p == parseChunk(cBuffer, d.text)
     IN /\ cDecPending' = d.pending
        /\ cDecoded' = cDecoded \o d.text
        /\ cBuffer' = p.buffer
        /\ cHanded' = cHanded \o p.lines
        /\ cResponseText' = accumulate(cResponseText, p.lines)
  /\ queue' = Tail(queue)
  /\ UNCHANGED <<variant, aiBytes, rpos, cur, spc, parserVars, cpc, reqVars, browser>>

\* what sendMessage does with the buffer after `if (done) break`:
\* part_000 processes it (lines 164-179), chat.js goes straight on (line 163)
clientFlush(v, text, buf) == IF v = "single" THEN flushBuffer(text, buf) ELSE text

CliEnd ==
  /\ cpc = "read"
  /\ queue = <<>>
  /\ spc = "closed"
  /\ cResponseText' = clientFlush(variant, cResponseText, cBuffer)
  /\ cpc' = "done"
  /\ UNCHANGED <<variant, aiBytes, rpos, cur, spc, queue, parserVars,
                 cDecPending, cBuffer, cDecoded, cHanded, reqVars, browser>>

NextStream ==
  \/ SrvRead
  \/ SrvEnqueue
  \/ SrvAccumulate
  \/ SrvEnd
  \/ CliRead
  \/ CliEnd

SpecStream == InitStream /\ [][NextStream]_vars

(***************************************************************************)
(* Spec                                                                    *)
(***************************************************************************)
Init == StreamIdle /\ ReqIdle /\ browser = NoBrowser

free(r) == req[r].pc \in {"idle", "done"}

\* handleChatRequest up to the store read: body parsing, the 400 answers,
\* the normalization of messages
ChatReceive(r) ==
  /\ variant = "multi"
  /\ free(r)
  /\ nChats < MaxChats
  /\ \E body \in Bodies :
       IF chatError(body) # ""
       THEN /\ req' = [req EXCEPT ![r] =
                 [IdleReq EXCEPT !.kind = "chat", !.pc = "done", !.body = body,
                                 !.status = 400, !.error = chatError(body)]]
            /\ UNCHANGED nChats
       ELSE /\ req' = [req EXCEPT ![r] =
                 [IdleReq EXCEPT !.kind = "chat", !.pc = "load", !.body = body,
                                 !.userId = body.userId.val,
                                 !.chatId = body.chatId.val,
                                 !.incoming = incomingMessages(body.messages)]]
            /\ nChats' = nChats + 1
  /\ UNCHANGED <<store, streamVars, browser>>

\* the store read resolves; history is merged with the incoming messages, the
\* system prompt is ensured and env.AI.run is called
ChatLoad(r) ==
  /\ req[r].kind = "chat"
  /\ req[r].pc = "load"
  /\ LET l == loadChat(store[req[r].userId], req[r].chatId)
     IN req' = [req EXCEPT ![r] =
          [@ EXCEPT !.pc = "infer",
                    !.userChats = l.userChats,
                    !.history = l.history,
                    !.created = l.created,
                    !.messages = ensureSystemPrompt(mergeMessages(l.history, req[r].incoming)),
                    !.faults = IF l.failed THEN @ \cup {"read"} ELSE @,
                    !.ops = @ \o <<"get", "ai">>]]
  /\ UNCHANGED <<store, nChats, streamVars, browser>>

\* env.AI.run resolves with a stream: the pipe is started and the response
\* (200, text/event-stream) is returned
ChatInfer(r) ==
  /\ req[r].kind = "chat"
  /\ req[r].pc = "infer"
  /\ \E chunks \in AIStreams :
       req' = [req EXCEPT ![r] = [@ EXCEPT !.pc = "stream", !.status = 200,
                                           !.stream = chunks, !.out = "open"]]
  /\ UNCHANGED <<store, nChats, streamVars, browser>>

\* env.AI.run rejects: the outer catch answers 500
ChatInferFail(r) ==
  /\ req[r].kind = "chat"
  /\ req[r].pc = "infer"
  /\ req' = [req EXCEPT ![r] =
       [@ EXCEPT !.pc = "done", !.status = 500, !.error = "Failed to process request",
                 !.faults = @ \cup {"ai"}]]
  /\ UNCHANGED <<store, nChats, streamVars, browser>>

\* transform(chunk, controller)
ChatTransform(r) ==
  /\ req[r].kind = "chat"
  /\ req[r].pc = "stream"
  /\ req[r].stream # <<>>
  /\ \E d \in { decode(<<>>, Head(req[r].stream)) } :
     \E p \in { parseChunk(req[r].buffer, d.text) } :
       req' = [req EXCEPT ![r] =
         [@ EXCEPT !.stream = Tail(@),
                   !.sent = enqueue(@, Head(req[r].stream)),
                   !.buffer = p.buffer,
                   !.responseText = accumulate(@, p.lines)]]
  /\ UNCHANGED <<store, nChats, streamVars, browser>>

\* flush(): the rest of the buffer is processed; a non-empty reply is appended
\* as the assistant turn and the put is handed to ctx.waitUntil. Without a
\* userChats[chatId] the assignment to its messages throws: the readable side
\* is errored and no put is made.
ChatFlush(r) ==
  /\ req[r].kind = "chat"
  /\ req[r].pc = "stream"
  /\ req[r].stream = <<>>
  /\ LET text == flushBuffer(req[r].responseText, req[r].buffer)
         msgs == Append(req[r].messages, [role |-> "assistant", content |-> text])
         uc == setMessages(req[r].userChats, req[r].chatId, msgs)
     IN IF text = <<>>
        THEN req' = [req EXCEPT ![r] =
               [@ EXCEPT !.pc = "done", !.responseText = text, !.out = "closed"]]
        ELSE IF ~hasChat(req[r].userChats, req[r].chatId)
        THEN req' = [req EXCEPT ![r] =
               [@ EXCEPT !.pc = "done",
                         !.responseText = text,
                         !.messages = msgs,
                         !.out = "errored"]]
        ELSE req' = [req EXCEPT ![r] =
               [@ EXCEPT !.pc = "saving",
                         !.responseText = text,
                         !.messages = msgs,
                         !.userChats = uc,
                         !.putValue = JSONstringify(uc),
                         !.out = "closed",
                         !.save = "pending",
                         !.ops = @ \o <<"put", "waitUntil">>]]
  /\ UNCHANGED <<store, nChats, streamVars, browser>>

\* the put handed to ctx.waitUntil lands in the store
ChatPut(r) ==
  /\ req[r].kind = "chat"
  /\ req[r].pc = "saving"
  /\ store' = kvPut(store, req[r].userId, req[r].putValue, SevenDays)
  /\ req' = [req EXCEPT ![r] = [@ EXCEPT !.pc = "done", !.save = "settled"]]
  /\ UNCHANGED <<nChats, streamVars, browser>>

\* getChatHistory: the response to GET /api/history?userId=u&chatId=c
\* the catch of getChatHistory: the get rejected or JSON.parse threw
historyReadFailed(u, c) ==
  [IdleReq EXCEPT !.kind = "history", !.pc = "done", !.userId = u, !.chatId = c,
                  !.status = 500, !.error = "Failed to load chat history",
                  !.ops = <<"get">>, !.faults = {"read"}]

getChatHistory(kv, u, c) ==
  IF u = Missing
  THEN [IdleReq EXCEPT !.kind = "history", !.pc = "done", !.userId = u, !.chatId = c,
                       !.status = 400, !.error = "Missing userId parameter"]
  ELSE IF c = Missing
  THEN [IdleReq EXCEPT !.kind = "history", !.pc = "done", !.userId = u, !.chatId = c,
                       !.status = 400, !.error = "Missing chatId parameter"]
  ELSE IF kv[u].present /\ ~parses(kv[u].value) THEN historyReadFailed(u, c)
  ELSE LET uc == IF kv[u].present THEN parseStored(kv[u].value) ELSE EmptyChats
       IN [IdleReq EXCEPT !.kind = "history", !.pc = "done", !.userId = u, !.chatId = c,
                          !.status = 200,
                          !.result = IF kv[u].present /\ hasChat(uc, c)
                                     THEN chatOf(uc, c).messages ELSE <<>>,
                          !.ops = <<"get">>]

GetHistory(r) ==
  /\ variant = "multi"
  /\ free(r)
  /\ \E u \in Users \cup {Missing}, c \in ChatIds \cup {Missing} :
       req' = [req EXCEPT ![r] = getChatHistory(store, u, c)]
  /\ UNCHANGED <<store, nChats, streamVars, browser>>

\* getConversations: the response to GET /api/conversations?userId=u
\* the catch of getConversations
conversationsReadFailed(u) ==
  [IdleReq EXCEPT !.kind = "conversations", !.pc = "done", !.userId = u,
                  !.status = 500, !.error = "Failed to load conversations",
                  !.ops = <<"get">>, !.faults = {"read"}]

getConversations(kv, u) ==
  IF u = Missing
  THEN [IdleReq EXCEPT !.kind = "conversations", !.pc = "done", !.userId = u,
                       !.status = 400, !.error = "Missing userId parameter"]
  ELSE IF kv[u].present /\ ~parses(kv[u].value) THEN conversationsReadFailed(u)
  ELSE LET uc == IF kv[u].present THEN parseStored(kv[u].value) ELSE EmptyChats
       IN [IdleReq EXCEPT !.kind = "conversations", !.pc = "done", !.userId = u,
                          !.status = 200,
                          !.result = [i \in 1..Len(uc) |->
                                        [chatId |-> uc[i].chatId, name |-> uc[i].name]],
                          !.ops = <<"get">>]

GetConversations(r) ==
  /\ variant = "multi"
  /\ free(r)
  /\ \E u \in Users \cup {Missing} :
       req' = [req EXCEPT ![r] = getConversations(store, u)]
  /\ UNCHANGED <<store, nChats, streamVars, browser>>

\* deleteChatHistory up to the store read
DeleteReceive(r) ==
  /\ variant = "multi"
  /\ free(r)
  /\ \E u \in Users \cup {Missing}, c \in ChatIds \cup {Missing} :
       IF u = Missing \/ c = Missing
       THEN req' = [req EXCEPT ![r] =
              [IdleReq EXCEPT !.kind = "delete", !.pc = "done",
                              !.userId = u, !.chatId = c, !.status = 400,
                              !.error = IF u = Missing THEN "Missing userId parameter"
                                        ELSE "Missing chatId parameter"]]
       ELSE req' = [req EXCEPT ![r] =
              [IdleReq EXCEPT !.kind = "delete", !.pc = "dget",
                              !.userId = u, !.chatId = c]]
  /\ UNCHANGED <<store, nChats, streamVars, browser>>

\* the catch of deleteChatHistory: the get, JSON.parse or the put threw
deleteFailed(rec, op, fault) ==
  [rec EXCEPT !.pc = "done", !.status = 500, !.error = "Failed to delete chat",
              !.ops = @ \o op, !.faults = @ \cup {fault}]

\* the store read resolves; the member is deleted and the put is issued
DeleteLoad(r) ==
  /\ req[r].kind = "delete"
  /\ req[r].pc = "dget"
  /\ LET entry == store[req[r].userId]
         stored == IF entry.present THEN parseStored(entry.value) ELSE EmptyChats
         uc == IF hasChat(stored, req[r].chatId) THEN deleteKey(stored, req[r].chatId)
               ELSE stored
     IN IF entry.present /\ ~parses(entry.value)
        THEN req' = [req EXCEPT ![r] = deleteFailed(@, <<"get">>, "read")]
        ELSE req' = [req EXCEPT ![r] =
               [@ EXCEPT !.pc = "dput",
                         !.userChats = uc,
                         !.putValue = JSONstringify(uc),
                         !.ops = @ \o <<"get", "put">>]]
  /\ UNCHANGED <<store, nChats, streamVars, browser>>

\* the put resolves and 200 {message: "Chat deleted"} is returned
DeletePut(r) ==
  /\ req[r].kind = "delete"
  /\ req[r].pc = "dput"
  /\ store' = kvPut(store, req[r].userId, req[r].putValue, SevenDays)
  /\ req' = [req EXCEPT ![r] = [@ EXCEPT !.pc = "done", !.status = 200]]
  /\ UNCHANGED <<nChats, streamVars, browser>>

Next ==
  \/ \E r \in Reqs : ChatReceive(r)
  \/ \E r \in Reqs : ChatLoad(r)
  \/ \E r \in Reqs : ChatInfer(r)
  \/ \E r \in Reqs : ChatInferFail(r)
  \/ \E r \in Reqs : ChatTransform(r)
  \/ \E r \in Reqs : ChatFlush(r)
  \/ \E r \in Reqs : ChatPut(r)
  \/ \E r \in Reqs : GetHistory(r)
  \/ \E r \in Reqs : GetConversations(r)
  \/ \E r \in Reqs : DeleteReceive(r)
  \/ \E r \in Reqs : DeleteLoad(r)
  \/ \E r \in Reqs : DeletePut(r)

Spec == Init /\ [][Next]_vars

(***************************************************************************)
(* The multi-conversation worker when the store, the inference stream or   *)
(* the client fails                                                        *)
(***************************************************************************)
\* env.CHAT_HISTORY.get rejects in handleChatRequest: the catch logs and the
\* handler goes on with userChats = {} and history = []
ChatLoadFail(r) ==
  /\ req[r].kind = "chat"
  /\ req[r].pc = "load"
  /\ req' = [req EXCEPT ![r] =
       [@ EXCEPT !.pc = "infer",
                 !.userChats = loadFailed.userChats,
                 !.history = loadFailed.history,
                 !.created = loadFailed.created,
                 !.messages = ensureSystemPrompt(mergeMessages(loadFailed.history,
                                                               req[r].incoming)),
                 !.faults = @ \cup {"read"},
                 !.ops = @ \o <<"get", "ai">>]]
  /\ UNCHANGED <<store, nChats, streamVars, browser>>

\* the inference stream errors while it is piped: pipeTo aborts the writable
\* side, the readable side is errored, flush() is not called
ChatStreamError(r) ==
  /\ req[r].kind = "chat"
  /\ req[r].pc = "stream"
  /\ req' = [req EXCEPT ![r] =
       [@ EXCEPT !.pc = "done", !.out = "errored", !.faults = @ \cup {"upstream"}]]
  /\ UNCHANGED <<store, nChats, streamVars, browser>>

\* the client cancels the response body: the transform stream is torn down,
\* pipeTo rejects, flush() is not called
ChatCancel(r) ==
  /\ req[r].kind = "chat"
  /\ req[r].pc = "stream"
  /\ req' = [req EXCEPT ![r] =
       [@ EXCEPT !.pc = "done", !.out = "cancelled", !.faults = @ \cup {"cancel"}]]
  /\ UNCHANGED <<store, nChats, streamVars, browser>>

\* a put failure that reaches the client stream
rethrowPutError(rec) ==
  [rec EXCEPT !.pc = "done", !.save = "settled", !.out = "errored",
              !.faults = @ \cup {"write"}]

\* .catch(err => console.warn("Failed to save chat history:", err))
catchPutError(rec) ==
  [rec EXCEPT !.pc = "done", !.save = "settled", !.faults = @ \cup {"write"}]

\* the put handed to ctx.waitUntil rejects
ChatPutFail(r) ==
  /\ req[r].kind = "chat"
  /\ req[r].pc = "saving"
  /\ req' = [req EXCEPT ![r] = catchPutError(@)]
  /\ UNCHANGED <<store, nChats, streamVars, browser>>

\* env.CHAT_HISTORY.get rejects in getChatHistory
GetHistoryFail(r) ==
  /\ variant = "multi"
  /\ free(r)
  /\ \E u \in Users, c \in ChatIds :
       req' = [req EXCEPT ![r] = historyReadFailed(u, c)]
  /\ UNCHANGED <<store, nChats, streamVars, browser>>

\* env.CHAT_HISTORY.get rejects in getConversations
GetConversationsFail(r) ==
  /\ variant = "multi"
  /\ free(r)
  /\ \E u \in Users :
       req' = [req EXCEPT ![r] = conversationsReadFailed(u)]
  /\ UNCHANGED <<store, nChats, streamVars, browser>>

\* env.CHAT_HISTORY.get rejects in deleteChatHistory
DeleteLoadFail(r) ==
  /\ req[r].kind = "delete"
  /\ req[r].pc = "dget"
  /\ req' = [req EXCEPT ![r] = deleteFailed(@, <<"get">>, "read")]
  /\ UNCHANGED <<store, nChats, streamVars, browser>>

\* env.CHAT_HISTORY.put rejects in deleteChatHistory
DeletePutFail(r) ==
  /\ req[r].kind = "delete"
  /\ req[r].pc = "dput"
  /\ req' = [req EXCEPT ![r] = deleteFailed(@, <<>>, "write")]
  /\ UNCHANGED <<store, nChats, streamVars, browser>>

(***************************************************************************)
(* The single-conversation worker (src/src/index.ts): one message array    *)
(* under history:<userId>                                                  *)
(***************************************************************************)
\* the 400 answers of its handleChatRequest
chatErrorSingle(body) ==
  IF body.type \notin {"object", "array"} THEN "Invalid JSON body"
  ELSE IF ~truthy(body.userId) \/ body.userId.type # "string"
       THEN "Missing or invalid userId"
  ELSE ""

SChatReceive(r) ==
  /\ variant = "single"
  /\ free(r)
  /\ nChats < MaxChats
  /\ \E body \in Bodies :
       IF chatErrorSingle(body) # ""
       THEN /\ req' = [req EXCEPT ![r] =
                 [IdleReq EXCEPT !.kind = "schat", !.pc = "done", !.body = body,
                                 !.status = 400, !.error = chatErrorSingle(body)]]
            /\ UNCHANGED nChats
       ELSE /\ req' = [req EXCEPT ![r] =
                 [IdleReq EXCEPT !.kind = "schat", !.pc = "sload", !.body = body,
                                 !.userId = body.userId.val,
                                 !.incoming = incomingMessages(body.messages)]]
            /\ nChats' = nChats + 1
  /\ UNCHANGED <<store, streamVars, browser>>

\* history = stored ? JSON.parse(stored) : [] with its catch
loadHistory(entry) ==
  IF entry.present /\ ~parses(entry.value) THEN [history |-> <<>>, failed |-> TRUE]
  ELSE IF entry.present THEN [history |-> parseStored(entry.value), failed |-> FALSE]
  ELSE [history |-> <<>>, failed |-> FALSE]

\* from the store read to the return of the Response: the messages are built,
\* the save promise is handed to ctx.waitUntil, the stream's start() calls
\* env.AI.run and the event-stream response is returned
startChat(rec, l) ==
  [rec EXCEPT !.pc = "sinfer",
              !.history = l.history,
              !.messages = ensureSystemPrompt(mergeMessages(l.history, rec.incoming)),
              !.faults = IF l.failed THEN @ \cup {"read"} ELSE @,
              !.save = "pending",
              !.status = 200,
              !.out = "open",
              !.ops = @ \o <<"get", "waitUntil", "ai">>]

SChatLoad(r) ==
  /\ req[r].kind = "schat"
  /\ req[r].pc = "sload"
  /\ req' = [req EXCEPT ![r] = startChat(@, loadHistory(store[req[r].userId]))]
  /\ UNCHANGED <<store, nChats, streamVars, browser>>

\* env.CHAT_HISTORY.get rejects
SChatLoadFail(r) ==
  /\ req[r].kind = "schat"
  /\ req[r].pc = "sload"
  /\ req' = [req EXCEPT ![r] = startChat(@, [history |-> <<>>, failed |-> TRUE])]
  /\ UNCHANGED <<store, nChats, streamVars, browser>>

\* a then-callback that appends and saves whatever was accumulated
saveAnyText(rec, text) ==
  LET msgs == Append(rec.messages, [role |-> "assistant", content |-> rec.responseText])
  IN [rec EXCEPT !.pc = "sput", !.messages = msgs,
                 !.putValue = JSONstringify(msgs),
                 !.ops = @ \o <<"put">>]

\* a then-callback that also saves an empty text
saveEmptyText(rec, text) ==
  LET msgs == Append(rec.messages, [role |-> "assistant", content |-> text])
  IN [rec EXCEPT !.pc = "sput", !.messages = msgs,
                 !.putValue = JSONstringify(msgs),
                 !.ops = @ \o <<"put">>]

\* resolveHistorySave(text) and the callback of historySavePromise.then
resolveHistorySave(rec, text) ==
  IF text # <<>>
  THEN LET msgs == Append(rec.messages, [role |-> "assistant", content |-> text])
       IN [rec EXCEPT !.pc = "sput", !.messages = msgs,
                      !.putValue = JSONstringify(msgs),
                      !.ops = @ \o <<"put">>]
  ELSE [rec EXCEPT !.pc = "done", !.save = "settled"]

\* the catch of start() that leaves the save promise unresolved
onStreamErrorNoResolve(rec, fault) ==
  [rec EXCEPT !.pc = "done",
              !.out = IF @ = "open" THEN "errored" ELSE @,
              !.faults = IF fault = "" THEN @ ELSE @ \cup {fault}]

\* the catch of start(): controller.error(error); resolveHistorySave("")
onStreamError(rec, fault) ==
  resolveHistorySave([rec EXCEPT !.out = IF @ = "open" THEN "errored" ELSE @,
                                 !.faults = IF fault = "" THEN @ ELSE @ \cup {fault}],
                     <<>>)

\* env.AI.run resolves with the stream
SInfer(r) ==
  /\ req[r].kind = "schat"
  /\ req[r].pc = "sinfer"
  /\ \E chunks \in AIStreams :
       req' = [req EXCEPT ![r] = [@ EXCEPT !.pc = "sstream", !.stream = chunks]]
  /\ UNCHANGED <<store, nChats, streamVars, browser>>

\* env.AI.run rejects inside start()
SInferFail(r) ==
  /\ req[r].kind = "schat"
  /\ req[r].pc = "sinfer"
  /\ req' = [req EXCEPT ![r] = onStreamError(@, "ai")]
  /\ UNCHANGED <<store, nChats, streamVars, browser>>

\* one turn of the read loop; controller.enqueue throws once the client has
\* cancelled the body
SRead(r) ==
  /\ req[r].kind = "schat"
  /\ req[r].pc = "sstream"
  /\ req[r].stream # <<>>
  /\ \E d \in { decode(req[r].decPending, Head(req[r].stream)) } :
     \E p \in { parseChunk(req[r].buffer, d.text) } :
       IF req[r].out # "open"
       THEN req' = [req EXCEPT ![r] = onStreamError([@ EXCEPT !.stream = Tail(@)], "")]
       ELSE req' = [req EXCEPT ![r] =
              [@ EXCEPT !.stream = Tail(@),
                        !.sent = enqueue(@, Head(req[r].stream)),
                        !.decPending = d.pending,
                        !.buffer = p.buffer,
                        !.responseText = accumulate(@, p.lines)]]
  /\ UNCHANGED <<store, nChats, streamVars, browser>>

\* reader.read() reports done: the buffer is flushed, controller.close() is
\* called (it throws once the client has cancelled) and the save is resolved
SEnd(r) ==
  /\ req[r].kind = "schat"
  /\ req[r].pc = "sstream"
  /\ req[r].stream = <<>>
  /\ LET text == flushBuffer(req[r].responseText, req[r].buffer)
     IN IF req[r].out # "open"
        THEN req' = [req EXCEPT ![r] = onStreamError([@ EXCEPT !.responseText = text], "")]
        ELSE req' = [req EXCEPT ![r] =
               resolveHistorySave([@ EXCEPT !.responseText = text, !.out = "closed"],
                                  text)]
  /\ UNCHANGED <<store, nChats, streamVars, browser>>

\* reader.read() rejects
SStreamError(r) ==
  /\ req[r].kind = "schat"
  /\ req[r].pc = "sstream"
  /\ req' = [req EXCEPT ![r] = onStreamError(@, "upstream")]
  /\ UNCHANGED <<store, nChats, streamVars, browser>>

\* the client cancels the response body; the stream has no cancel callback
SCancel(r) ==
  /\ req[r].kind = "schat"
  /\ req[r].pc \in {"sinfer", "sstream"}
  /\ req[r].out = "open"
  /\ req' = [req EXCEPT ![r] = [@ EXCEPT !.out = "cancelled", !.faults = @ \cup {"cancel"}]]
  /\ UNCHANGED <<store, nChats, streamVars, browser>>

\* the put of the then-callback resolves
SPut(r) ==
  /\ req[r].kind = "schat"
  /\ req[r].pc = "sput"
  /\ store' = kvPut(store, req[r].userId, req[r].putValue, SevenDays)
  /\ req' = [req EXCEPT ![r] = [@ EXCEPT !.pc = "done", !.save = "settled"]]
  /\ UNCHANGED <<nChats, streamVars, browser>>

\* the put rejects: catch (err) { console.warn("Failed to save history:", err) }
SPutFail(r) ==
  /\ req[r].kind = "schat"
  /\ req[r].pc = "sput"
  /\ req' = [req EXCEPT ![r] = catchPutError(@)]
  /\ UNCHANGED <<store, nChats, streamVars, browser>>

\* getChatHistory of index.ts
getChatHistorySingle(l, u) ==
  IF u = Missing
  THEN [IdleReq EXCEPT !.kind = "shistory", !.pc = "done", !.userId = u,
                       !.status = 400, !.error = "Missing userId parameter"]
  ELSE [IdleReq EXCEPT !.kind = "shistory", !.pc = "done", !.userId = u,
                       !.status = 200, !.result = l.history,
                       !.faults = IF l.failed THEN {"read"} ELSE {},
                       !.ops = <<"get">>]

SGetHistory(r) ==
  /\ variant = "single"
  /\ free(r)
  /\ \E u \in Users \cup {Missing} :
       req' = [req EXCEPT ![r] =
         getChatHistorySingle(IF u = Missing THEN [history |-> <<>>, failed |-> FALSE]
                              ELSE loadHistory(store[u]), u)]
  /\ UNCHANGED <<store, nChats, streamVars, browser>>

\* env.CHAT_HISTORY.get rejects in getChatHistory of index.ts
SGetHistoryFail(r) ==
  /\ variant = "single"
  /\ free(r)
  /\ \E u \in Users :
       req' = [req EXCEPT ![r] = getChatHistorySingle([history |-> <<>>, failed |-> TRUE], u)]
  /\ UNCHANGED <<store, nChats, streamVars, browser>>

(***************************************************************************)
(* SpecFault: either worker over a store that already holds records, with  *)
(* store, inference and client failures                                    *)
(***************************************************************************)
\* the messages a completed chat turn leaves behind
SavedTurn ==
  << systemMessage,
     [role |-> "user", content |-> <<"q">>],
     [role |-> "assistant", content |-> <<"r">>] >>

stored(value) == [present |-> TRUE, value |-> value, expirationTtl |-> SevenDays]

RecOne ==
  JSONstringify(<< [chatId |-> "c1", name |-> chatName(1), messages |-> SavedTurn] >>)

RecTwo ==
  JSONstringify(<< [chatId |-> "c1", name |-> chatName(1), messages |-> SavedTurn],
                   [chatId |-> "c2", name |-> chatName(2), messages |-> SavedTurn] >>)

\* what may be found under history:<userId>
StoredEntries(v) ==
  IF v = "multi"
  THEN {NoEntry, stored(RecOne), stored(RecTwo), stored(Corrupt)}
  ELSE {NoEntry, stored(JSONstringify(SavedTurn)), stored(Corrupt)}

InitFault ==
  /\ variant \in {"single", "multi"}
  /\ StreamClosed
  /\ store \in [AllUsers -> StoredEntries(variant)]
  /\ req = [r \in Reqs |-> IdleReq]
  /\ nChats = MaxChats - MaxFaultChats
  /\ browser = NoBrowser

NextFault ==
  \/ \E r \in Reqs : ChatReceive(r)
  \/ \E r \in Reqs : ChatLoad(r)
  \/ \E r \in Reqs : ChatLoadFail(r)
  \/ \E r \in Reqs : ChatInfer(r)
  \/ \E r \in Reqs : ChatInferFail(r)
  \/ \E r \in Reqs : ChatTransform(r)
  \/ \E r \in Reqs : ChatStreamError(r)
  \/ \E r \in Reqs : ChatCancel(r)
  \/ \E r \in Reqs : ChatFlush(r)
  \/ \E r \in Reqs : ChatPut(r)
  \/ \E r \in Reqs : ChatPutFail(r)
  \/ \E r \in Reqs : GetHistory(r)
  \/ \E r \in Reqs : GetHistoryFail(r)
  \/ \E r \in Reqs : GetConversations(r)
  \/ \E r \in Reqs : GetConversationsFail(r)
  \/ \E r \in Reqs : DeleteReceive(r)
  \/ \E r \in Reqs : DeleteLoad(r)
  \/ \E r \in Reqs : DeleteLoadFail(r)
  \/ \E r \in Reqs : DeletePut(r)
  \/ \E r \in Reqs : DeletePutFail(r)
  \/ \E r \in Reqs : SChatReceive(r)
  \/ \E r \in Reqs : SChatLoad(r)
  \/ \E r \in Reqs : SChatLoadFail(r)
  \/ \E r \in Reqs : SInfer(r)
  \/ \E r \in Reqs : SInferFail(r)
  \/ \E r \in Reqs : SRead(r)
  \/ \E r \in Reqs : SEnd(r)
  \/ \E r \in Reqs : SStreamError(r)
  \/ \E r \in Reqs : SCancel(r)
  \/ \E r \in Reqs : SPut(r)
  \/ \E r \in Reqs : SPutFail(r)
  \/ \E r \in Reqs : SGetHistory(r)
  \/ \E r \in Reqs : SGetHistoryFail(r)

SpecFault == InitFault /\ [][NextFault]_vars

\* the chat requests of either worker
NextChat ==
  \/ \E r \in Reqs : ChatReceive(r)
  \/ \E r \in Reqs : ChatLoad(r)
  \/ \E r \in Reqs : ChatLoadFail(r)
  \/ \E r \in Reqs : ChatInfer(r)
  \/ \E r \in Reqs : ChatInferFail(r)
  \/ \E r \in Reqs : ChatTransform(r)
  \/ \E r \in Reqs : ChatStreamError(r)
  \/ \E r \in Reqs : ChatCancel(r)
  \/ \E r \in Reqs : ChatFlush(r)
  \/ \E r \in Reqs : ChatPut(r)
  \/ \E r \in Reqs : ChatPutFail(r)
  \/ \E r \in Reqs : SChatReceive(r)
  \/ \E r \in Reqs : SChatLoad(r)
  \/ \E r \in Reqs : SChatLoadFail(r)
  \/ \E r \in Reqs : SInfer(r)
  \/ \E r \in Reqs : SInferFail(r)
  \/ \E r \in Reqs : SRead(r)
  \/ \E r \in Reqs : SEnd(r)
  \/ \E r \in Reqs : SStreamError(r)
  \/ \E r \in Reqs : SCancel(r)
  \/ \E r \in Reqs : SPut(r)
  \/ \E r \in Reqs : SPutFail(r)

\* the steps that follow from a chat request being in progress: a
\* continuation runs once its promise settles, the inference call and the
\* inference stream end or fail, a started put settles
Progress(r) ==
  \/ ChatLoad(r) \/ ChatLoadFail(r)
  \/ ChatInfer(r) \/ ChatInferFail(r)
  \/ ChatTransform(r) \/ ChatStreamError(r) \/ ChatFlush(r)
  \/ ChatPut(r) \/ ChatPutFail(r)
  \/ SChatLoad(r) \/ SChatLoadFail(r)
  \/ SInfer(r) \/ SInferFail(r)
  \/ SRead(r) \/ SEnd(r) \/ SStreamError(r)
  \/ SPut(r) \/ SPutFail(r)

\* SpecFault restricted to chat requests, with that progress
SpecFaultFair ==
  InitFault /\ [][NextChat]_vars /\ \A r \in Reqs : WF_vars(Progress(r))

(***************************************************************************)
(* Properties of SpecStream                                                *)
(***************************************************************************)
IsPrefix(s, t) == Len(s) <= Len(t) /\ SubSeq(t, 1, Len(s)) = s

Front(s) == SubSeq(s, 1, Len(s) - 1)

Last(s) == s[Len(s)]

\* the texts a response member can hold in the streams above
ResponseTexts == { <<"a">>, <<"b">>, <<EAcute>>, <<Replacement>> }

\* the payload of a candidate line: the line without the optional "data: "
\* prefix, trimmed
payloadOf(line) ==
  IF startsWith(line, DataPrefix) THEN trim(slice(line, 6)) ELSE trim(line)

\* what a line contributes: s if it is an event {"response": s}, else nothing
eventText(line) ==
  IF \E s \in ResponseTexts : payloadOf(line) = RespOpen \o s \o RespClose
  THEN CHOOSE s \in ResponseTexts : payloadOf(line) = RespOpen \o s \o RespClose
  ELSE <<>>

RECURSIVE concatEvents(_)
concatEvents(ls) ==
  IF ls = <<>> THEN <<>> ELSE eventText(Head(ls)) \o concatEvents(Tail(ls))

newlinesIn(s) == Cardinality({ i \in 1..Len(s) : s[i] = NL })

C4_StateOk ==
  responseText = concatEvents(handed \o (IF spc = "closed" THEN <<buffer>> ELSE <<>>))

C5_DecodeIgnoresCuts ==
  spc = "closed" => decoded = decode(<<>>, aiBytes).text

\* C6 (as claimed): at stream end the client has processed the unterminated
\* rest as one more candidate line, and so holds the text the worker keeps
\* for persistence.
C6_ClientFlushes ==
  cpc = "done" =>
    /\ cResponseText = concatEvents(split(cDecoded))
    /\ (cDecoded = decoded => cResponseText = responseText)


(***************************************************************************)
(* Properties of Spec                                                      *)
(***************************************************************************)
isSystem(m) == m.role = "system"

systemCount(msgs) == Cardinality({i \in 1..Len(msgs) : isSystem(msgs[i])})

\* a chat request whose stream completed with a non-empty reply, whose
\* background write has landed and is still the stored value
chatSaved(r) ==
  /\ req[r].kind = "chat"
  /\ req[r].pc = "done"
  /\ req[r].status = 200
  /\ req[r].responseText # <<>>
  /\ store[req[r].userId].present
  /\ store[req[r].userId].value = req[r].putValue

expectedHistory(r) ==
  LET incoming == incomingMessages(req[r].body.messages)
      prefix == IF systemCount(req[r].history) = 0 /\ systemCount(incoming) = 0
                THEN << [role |-> "system", content |-> SYSTEM_PROMPT] >>
                ELSE <<>>
  IN prefix \o req[r].history \o incoming
       \o << [role |-> "assistant", content |-> req[r].responseText] >>

\* C1: after a chat request with valid ids completed with a non-empty reply R
\* and its background write landed with no other write since, GET /api/history
\* for the same user and chat answers 200 with the default system message
\* (only when neither the stored history nor the incoming messages had a
\* system message), then the stored messages, then the normalized incoming
\* messages, then {assistant, R}.
C1_HistoryAfterChat ==
  \A r \in Reqs :
    chatSaved(r) =>
      LET g == getChatHistory(store, req[r].userId, req[r].chatId)
      IN /\ g.status = 200
         /\ g.result = expectedHistory(r)

C1_Witness ==
  \E r \in Reqs :
    /\ chatSaved(r)
    /\ req[r].history # <<>>
    /\ req[r].body.messages.items = <<ItemEmpty, ItemNumber>>
    /\ Len(getChatHistory(store, req[r].userId, req[r].chatId).result)
         = Len(req[r].history) + 3

invalidChatBody(b) ==
  \/ b.type # "object"
  \/ b.userId.type # "string"
  \/ b.chatId.type # "string"

\* C7: a chat request whose body is not a JSON object, or whose userId or
\* chatId is missing or not a string, is answered 400 and performs no store
\* get, no store put, no inference call and no background task; the same for
\* GET/DELETE /api/history and GET /api/conversations when a query parameter
\* is missing.
C7_RejectedBeforeEffects ==
  \A r \in Reqs :
    /\ (req[r].kind = "chat" /\ invalidChatBody(req[r].body)) =>
         /\ req[r].pc = "done"
         /\ req[r].status = 400
         /\ req[r].ops = <<>>
    /\ (req[r].kind \in {"history", "delete"}
          /\ (req[r].userId = Missing \/ req[r].chatId = Missing)) =>
         /\ req[r].pc = "done"
         /\ req[r].status = 400
         /\ req[r].ops = <<>>
    /\ (req[r].kind = "conversations" /\ req[r].userId = Missing) =>
         /\ req[r].pc = "done"
         /\ req[r].status = 400
         /\ req[r].ops = <<>>
    /\ req[r].status = 400 => req[r].ops = <<>>

C7_Witness ==
  \E r \in Reqs :
    /\ req[r].kind = "chat"
    /\ req[r].body.type = "object"
    /\ req[r].body.userId.type = "string"
    /\ req[r].body.chatId = Num7
    /\ req[r].status = 400
    /\ \E u \in Users : store[u].present

reachedInference(r) ==
  /\ req[r].kind = "chat"
  /\ \E i \in 1..Len(req[r].ops) : req[r].ops[i] = "ai"

\* C8: the message list passed to the inference endpoint and later persisted
\* holds exactly one system message, at index 0, for every stored history and
\* every incoming list (incoming lists with system messages included).
C8_OneLeadingSystem ==
  \A r \in Reqs :
    reachedInference(r) =>
      /\ systemCount(req[r].messages) = 1
      /\ isSystem(req[r].messages[1])

\* C9: the system-prompt step alone: a merged list (history then incoming)
\* without a system message comes out as the default system message followed
\* by the merged list; a merged list with a system message comes out unchanged.
C9_SystemStep ==
  \A r \in Reqs :
    (reachedInference(r) /\ req[r].pc \in {"infer", "stream"}) =>
      LET merged == req[r].history \o req[r].incoming
          out == req[r].messages
      IN IF systemCount(merged) = 0
         THEN /\ Len(out) = Len(merged) + 1
              /\ out[1] = [role |-> "system", content |-> SYSTEM_PROMPT]
              /\ \A i \in 1..Len(merged) : out[i + 1] = merged[i]
         ELSE out = merged

C9_Witness ==
  \E r \in Reqs :
    /\ reachedInference(r)
    /\ req[r].pc = "infer"
    /\ req[r].history # <<>>
    /\ req[r].incoming = <<normalize(ItemString), normalize(ItemSystem)>>
    /\ systemCount(req[r].messages) = 2
    /\ req[r].messages = req[r].history \o req[r].incoming

\* C10: a chat request that creates a conversation names it "Chat N" with N
\* the smallest positive integer no existing conversation of the user is
\* named with, which is the name the client's new-chat action showed.
C10_FirstGapName ==
  \A r \in Reqs :
    (req[r].kind = "chat" /\ req[r].created) =>
      chatOf(req[r].userChats, req[r].chatId).name
        = chatName(newChatNumberFirstGap(deleteKey(req[r].userChats, req[r].chatId)))


(***************************************************************************)
(* Properties of SpecFault                                                 *)
(***************************************************************************)
chatsOf(entry) == IF entry.present THEN entry.value.json ELSE <<>>

lacks(uc, c) == \A i \in 1..Len(uc) : uc[i].chatId # c

C11_Answered ==
  \A r \in Reqs :
    (/\ req[r].kind = "delete"
     /\ req[r].pc = "done"
     /\ req[r].userId # Missing
     /\ req[r].chatId # Missing
     /\ req[r].faults = {}) => req[r].status = 200

C11_Step ==
  \A r \in Reqs :
    (req[r].kind = "delete" /\ req[r].pc = "dput" /\ req'[r].pc = "done"
       /\ req'[r].faults = {}) =>
      LET u == req[r].userId
          c == req[r].chatId
          before == chatsOf(store[u])
          after == chatsOf(store'[u])
      IN /\ req'[r].status = 200
         /\ store'[u].present
         /\ store'[u].value.valid
         /\ lacks(after, c)
         /\ after = SelectSeq(before, LAMBDA e : e.chatId # c)
         /\ (store[u].present /\ lacks(before, c)) => store'[u] = store[u]
         /\ \A v \in AllUsers \ {u} : store'[v] = store[v]

\* C11: a DELETE with both parameters, when the store does not fail, answers
\* 200 and leaves the user's record without chatId and with every other
\* conversation as before; a DELETE of a chatId the record lacks (a second
\* DELETE included) leaves the record as it was; other users' records are
\* untouched.
C11_DeleteIdempotent == []C11_Answered /\ [][C11_Step]_vars

C11_Witness ==
  \E r \in Reqs :
    /\ req[r].kind = "delete"
    /\ req[r].pc = "done"
    /\ req[r].status = 200
    /\ req[r].chatId = "c1"
    /\ store["u1"].present
    /\ chatsOf(store["u1"]) = << [chatId |-> "c2", name |-> chatName(2), messages |-> SavedTurn] >>
    /\ store["u2"] = stored(RecOne)


\* C12: a user without a stored record has no conversations and gets no error:
\* GET /api/history answers 200 with an empty history (also when the record
\* lacks the chatId), GET /api/conversations answers 200 with no chats, and a
\* chat request goes on with an empty history and creates the conversation.
C12_AbsentIsEmpty ==
  \A r \in Reqs :
    LET u == req[r].userId
        c == req[r].chatId
    IN /\ (/\ req[r].kind = "history"
           /\ u # Missing /\ c # Missing
           /\ req[r].faults = {}
           /\ (~store[u].present \/ lacks(chatsOf(store[u]), c)))
          => (req[r].status = 200 /\ req[r].result = <<>>)
       /\ (/\ req[r].kind = "conversations"
           /\ u # Missing
           /\ req[r].faults = {}
           /\ ~store[u].present)
          => (req[r].status = 200 /\ req[r].result = <<>>)
       /\ (/\ req[r].kind = "chat"
           /\ req[r].pc \in {"infer", "stream"}
           /\ req[r].faults = {}
           /\ ~store[u].present)
          => /\ req[r].history = <<>>
             /\ req[r].created
             /\ \E i \in 1..Len(req[r].userChats) :
                  /\ req[r].userChats[i].chatId = c
                  /\ req[r].userChats[i].messages = <<>>
             /\ \E i \in 1..Len(req[r].ops) : req[r].ops[i] = "ai"

C12_Witness ==
  \E r \in Reqs :
    /\ req[r].kind = "chat"
    /\ req[r].pc = "stream"
    /\ req[r].faults = {}
    /\ ~store[req[r].userId].present
    /\ req[r].created
    /\ req[r].sent # <<>>


called(rec, op) == \E i \in 1..Len(rec.ops) : rec.ops[i] = op

\* C13 (as claimed): a chat request whose store read failed (the get rejected
\* or the record does not parse) and that met no other failure goes on with
\* an empty history, calls the inference endpoint, ends with the client
\* stream closed without error and, when the reply is not empty, has handed
\* the turn to the background write.
C13_ReadFailureKeepsTurn ==
  \A r \in Reqs :
    (/\ req[r].kind \in {"chat", "schat"}
     /\ req[r].faults = {"read"}
     /\ req[r].pc = "done")
    => /\ req[r].history = <<>>
       /\ called(req[r], "ai")
       /\ req[r].out = "closed"
       /\ req[r].responseText # <<>> => called(req[r], "put")


\* C14 (as claimed): a GET /api/history or GET /api/conversations whose store
\* read failed (the get rejected or the record does not parse) answers 200
\* with an empty history, respectively an empty list of chats.
C14_ReadFailureIsEmpty ==
  \A r \in Reqs :
    (req[r].kind \in {"history", "conversations", "shistory"} /\ "read" \in req[r].faults)
    => (req[r].status = 200 /\ req[r].result = <<>>)

\* C15 (as claimed): on every endpoint of the multi-conversation worker, a
\* request for which a store get or put failed is answered with status 500.
C15_StoreFailureIs500 ==
  \A r \in Reqs :
    (/\ req[r].kind \in {"history", "conversations", "delete", "chat"}
     /\ req[r].pc = "done"
     /\ req[r].faults \cap {"read", "write"} # {})
    => req[r].status = 500


C16_ResponseComplete ==
  \A r \in Reqs :
    req[r].pc \in {"saving", "sput"} => (req[r].status = 200 /\ req[r].out = "closed")

C16_Step ==
  \A r \in Reqs :
    (req[r].pc \in {"saving", "sput"} /\ req'[r].pc = "done") =>
      /\ req'[r].status = req[r].status
      /\ req'[r].sent = req[r].sent
      /\ req'[r].out = req[r].out
      /\ req'[r].save = "settled"
      /\ "write" \in req'[r].faults => store' = store

C17_InferenceFailureIs500 ==
  \A r \in Reqs :
    (req[r].kind \in {"chat", "schat"} /\ "ai" \in req[r].faults)
    => /\ req[r].status = 500
       /\ req[r].error # ""
       /\ req[r].out = "none"
       /\ ~called(req[r], "put")

lastMessage(rec) == rec.messages[Len(rec.messages)]

\* C18 (as claimed): when the inference stream errors after some text was
\* accumulated, the client stream ends errored and the assistant turn with the
\* partial text is appended and put in the store.
C18_PartialPersistedOnError ==
  \A r \in Reqs :
    (/\ req[r].kind \in {"chat", "schat"}
     /\ req[r].pc = "done"
     /\ req[r].faults = {"upstream"}
     /\ req[r].responseText # <<>>)
    => /\ req[r].out = "errored"
       /\ lastMessage(req[r]) = [role |-> "assistant", content |-> req[r].responseText]
       /\ called(req[r], "put")

\* C20 (as claimed): when the client cancels the body after some text was
\* accumulated, the assistant turn with the text accumulated so far is
\* appended and persisted for the conversation.
C20_PartialPersistedOnCancel ==
  \A r \in Reqs :
    (/\ req[r].kind \in {"chat", "schat"}
     /\ req[r].pc = "done"
     /\ req[r].faults = {"cancel"}
     /\ req[r].responseText # <<>>)
    => /\ lastMessage(req[r]) = [role |-> "assistant", content |-> req[r].responseText]
       /\ called(req[r], "put")
       /\ store[req[r].userId].present
       /\ store[req[r].userId].value = req[r].putValue


(***************************************************************************)
(* Properties of SpecFaultFair                                             *)
(***************************************************************************)
\* C19: a promise handed to ctx.waitUntil is settled in the end, whether the
\* stream completes with or without text, the inference call or stream fails,
\* the client cancels, or the put fails, given that the inference stream ends
\* or errors and a started put settles.
C19_SaveSettles ==
  \A r \in Reqs : (req[r].save = "pending") ~> (req[r].save = "settled")

C19_Witness ==
  \E r \in Reqs :
    /\ req[r].kind = "schat"
    /\ req[r].pc = "done"
    /\ req[r].faults = {"cancel"}
    /\ req[r].responseText # <<>>
    /\ req[r].save = "settled"

(***************************************************************************)
(* Properties of SpecFault: the writes                                     *)
(***************************************************************************)
\* a mapping from chatId to {name, messages}
isUserChats(uc) ==
  /\ \A i \in 1..Len(uc) : DOMAIN uc[i] = {"chatId", "name", "messages"}
  /\ \A i, j \in 1..Len(uc) : uc[i].chatId = uc[j].chatId => i = j

C22_Step ==
  store' # store =>
    \E r \in Reqs :
      LET u == req[r].userId
      IN /\ req[r].kind \in {"chat", "schat", "delete"}
         /\ req[r].pc \in {"saving", "sput", "dput"}
         /\ req'[r].pc = "done"
         /\ req[r].kind = "delete" \/ u = req[r].body.userId.val
         /\ \A v \in AllUsers \ {u} : store'[v] = store[v]
         /\ store'[u].present
         /\ store'[u].value = req[r].putValue
         /\ store'[u].expirationTtl = 60 * 60 * 24 * 7
         /\ variant = "multi" =>
              /\ parses(store'[u].value)
              /\ isUserChats(parseStored(store'[u].value))

\* C22: every change of the store is the put of one chat or delete request:
\* it replaces the entry under history:<userId> of that request's user,
\* leaves every other user's entry alone and sets an expiry of 604800
\* seconds; in the multi-conversation worker the value put is a mapping from
\* chatId to {name, messages}.
C22_WritesOwnKey == [][C22_Step]_vars

C22_Witness ==
  \E r \in Reqs :
    /\ req[r].kind \in {"schat", "delete"}
    /\ req[r].pc = "done"
    /\ called(req[r], "put")
    /\ req[r].faults = {}
    /\ store[req[r].userId].value = req[r].putValue
    /\ store[req[r].userId].expirationTtl = 604800
    /\ store["u2"].present

(***************************************************************************)
(* Properties of Spec: normalization                                       *)
(***************************************************************************)
Roles == {"system", "user", "assistant"}

isMessage(m) ==
  /\ DOMAIN m = {"role", "content"}
  /\ m.role \in Roles
  /\ DOMAIN m.content = 1..Len(m.content)

\* C23 (as claimed): the normalized list has one message per element of the
\* payload, in the same order; a bare string becomes a user message with
\* that content and an object without role gets role user; and every message
\* that is sent to the inference endpoint or stored has one of the roles
\* system, user, assistant and a text content.
C23_NormalizedMessages ==
  \A r \in Reqs :
    /\ (req[r].kind = "chat" /\ req[r].pc # "done" /\ req[r].body.messages.isArray) =>
         LET items == req[r].body.messages.items
             out == req[r].incoming
         IN /\ Len(out) = Len(items)
            /\ \A i \in 1..Len(items) :
                 /\ items[i].type = "string" =>
                      out[i] = [role |-> "user", content |-> items[i].val]
                 /\ (items[i].type = "object" /\ items[i].role = Missing) =>
                      out[i].role = "user"
                 /\ DOMAIN out[i].content = 1..Len(out[i].content)
    /\ (req[r].kind = "chat" /\ called(req[r], "ai")) =>
         \A i \in 1..Len(req[r].messages) : isMessage(req[r].messages[i])
    /\ \A u \in AllUsers :
         \A k \in 1..Len(chatsOf(store[u])) :
           \A i \in 1..Len(chatsOf(store[u])[k].messages) :
             isMessage(chatsOf(store[u])[k].messages[i])

(***************************************************************************)
(* SpecRoute: fetch(), the router of either worker                         *)
(***************************************************************************)
\* url.pathname as its segments: "/" is <<>>, "/api/history" is <<"api", "history">>
Paths ==
  { <<>>, <<"index.html">>, <<"api">>, <<"apix", "chat">>,
    <<"api", "history">>, <<"api", "conversations">>, <<"api", "chat">>,
    <<"api", "other">>, <<"api", "chat", "x">> }

Methods == {"GET", "POST", "DELETE", "PUT"}

\* url.pathname.startsWith("/api/")
underApi(path) == Len(path) >= 2 /\ path[1] = "api"

routed(path, method, body, handler, status, error) ==
  [IdleReq EXCEPT !.kind = "fetch", !.pc = "done", !.result = <<path, method>>,
                  !.body = body,
                  !.ops = IF handler = "" THEN <<>> ELSE <<handler>>,
                  !.status = status, !.error = error]

methodNotAllowed(path, method, body) == routed(path, method, body, "", 405, "")

\* fetch of index.ts: /api/history takes GET, /api/chat takes POST
fetchSingle(v, path, method, body) ==
  IF path = <<>> \/ ~underApi(path) THEN routed(path, method, body, "ASSETS.fetch", 0, "")
  ELSE IF path = <<"api", "history">>
  THEN IF method = "GET" THEN routed(path, method, body, "getChatHistory", 0, "")
       ELSE methodNotAllowed(path, method, body)
  ELSE IF path = <<"api", "chat">>
  THEN IF method = "POST"
       THEN routed(path, method, body, "handleChatRequest",
                   IF chatErrorSingle(body) # "" THEN 400 ELSE 0, chatErrorSingle(body))
       ELSE methodNotAllowed(path, method, body)
  ELSE routed(path, method, body, "", 404, "")

\* fetch(request, env, ctx) up to the call of the handler; for POST /api/chat
\* with the handler's answer to the body. The multi-conversation worker adds
\* DELETE /api/history and /api/conversations.
fetch(v, path, method, body) ==
  IF v = "single" THEN fetchSingle(v, path, method, body)
  ELSE IF path = <<>> \/ ~underApi(path) THEN routed(path, method, body, "ASSETS.fetch", 0, "")
  ELSE IF path = <<"api", "history">>
  THEN IF method = "GET" THEN routed(path, method, body, "getChatHistory", 0, "")
       ELSE IF method = "DELETE" THEN routed(path, method, body, "deleteChatHistory", 0, "")
       ELSE methodNotAllowed(path, method, body)
  ELSE IF path = <<"api", "conversations">>
  THEN IF method = "GET" THEN routed(path, method, body, "getConversations", 0, "")
       ELSE methodNotAllowed(path, method, body)
  ELSE IF path = <<"api", "chat">>
  THEN IF method = "POST"
       THEN routed(path, method, body, "handleChatRequest",
                   IF chatError(body) # "" THEN 400 ELSE 0, chatError(body))
       ELSE methodNotAllowed(path, method, body)
  ELSE routed(path, method, body, "", 404, "")

\* request.json() of a request without a JSON body rejects: body is null
RouteBodies == InvalidBodies \cup { b \in ValidBodies : b.messages = NoMessages }

Fetch(r) ==
  /\ free(r)
  /\ \E path \in Paths, method \in Methods, body \in RouteBodies :
       req' = [req EXCEPT ![r] = fetch(variant, path, method, body)]
  /\ UNCHANGED <<store, nChats, streamVars, browser>>

InitRoute ==
  /\ variant \in {"single", "multi"}
  /\ StreamClosed
  /\ ReqIdle
  /\ browser = NoBrowser

NextRoute == \E r \in Reqs : Fetch(r)

SpecRoute == InitRoute /\ [][NextRoute]_vars

\* C24 (as claimed): a path not under /api/ goes to the static assets;
\* /api/history takes GET and DELETE, /api/conversations GET, /api/chat POST;
\* a known API path with another method is answered 405 without a handler;
\* another /api/ path is answered 404; a POST /api/chat whose body is not
\* JSON is answered 400 with an error.
C24_RoutingTotal ==
  \A r \in Reqs :
    req[r].kind = "fetch" =>
      LET path == req[r].result[1]
          method == req[r].result[2]
          known == { <<"api", "history">>, <<"api", "conversations">>, <<"api", "chat">> }
          accepted == { <<<<"api", "history">>, "GET", "getChatHistory">>,
                        <<<<"api", "history">>, "DELETE", "deleteChatHistory">>,
                        <<<<"api", "conversations">>, "GET", "getConversations">>,
                        <<<<"api", "chat">>, "POST", "handleChatRequest">> }
      IN /\ ~underApi(path) => req[r].ops = <<"ASSETS.fetch">>
         /\ \A a \in accepted :
              (path = a[1] /\ method = a[2]) => req[r].ops = <<a[3]>>
         /\ (path \in known /\ \A a \in accepted : ~(path = a[1] /\ method = a[2]))
              => (req[r].status = 405 /\ req[r].ops = <<>>)
         /\ (underApi(path) /\ path \notin known)
              => (req[r].status = 404 /\ req[r].ops = <<>>)
         /\ (path = <<"api", "chat">> /\ method = "POST" /\ req[r].body.type = "null")
              => (req[r].status = 400 /\ req[r].error # "")

(***************************************************************************)
(* Properties of SpecFault: the phases of a chat request                   *)
(***************************************************************************)
indexOf(rec, op) == CHOOSE i \in 1..Len(rec.ops) : rec.ops[i] = op

countOf(rec, op) == Cardinality({ i \in 1..Len(rec.ops) : rec.ops[i] = op })

\* the list the inference endpoint is called with
mergedMessages(rec) == ensureSystemPrompt(mergeMessages(rec.history, rec.incoming))

assistantTurn(rec) == [role |-> "assistant", content |-> rec.responseText]

C25_Order ==
  \A r \in Reqs :
    req[r].kind \in {"chat", "schat"} =>
      /\ called(req[r], "ai") =>
           (called(req[r], "get") /\ indexOf(req[r], "get") < indexOf(req[r], "ai"))
      /\ req[r].sent # <<>> => called(req[r], "ai")
      /\ req[r].pc \notin {"idle", "load", "sload"} /\ req[r].status # 400 =>
           \/ req[r].messages = mergedMessages(req[r])
           \/ /\ req[r].messages = Append(mergedMessages(req[r]), assistantTurn(req[r]))
              /\ req[r].stream = <<>>
              /\ req[r].pc \in {"saving", "sput", "done"}
      /\ countOf(req[r], "put") <= 1
      /\ called(req[r], "put") =>
           /\ req[r].messages = Append(mergedMessages(req[r]), assistantTurn(req[r]))
           /\ called(req[r], "ai")
           /\ indexOf(req[r], "ai") < indexOf(req[r], "put")
      /\ req[r].status \in {400, 500} => ~called(req[r], "put")

\* the step that appends the assistant turn
C25_Append ==
  \A r \in Reqs :
    (/\ req[r].kind \in {"chat", "schat"}
     /\ req'[r].kind = req[r].kind
     /\ req[r].pc \notin {"idle", "done", "load", "sload"}
     /\ req'[r].messages # req[r].messages) =>
      /\ req[r].stream = <<>>
      /\ req[r].messages = mergedMessages(req[r])
      /\ req'[r].responseText = flushBuffer(req[r].responseText, req[r].buffer)
      /\ req'[r].sent = req[r].sent

\* C25: in a chat request of either worker the store read comes before the
\* inference call and the inference call before the first forwarded chunk;
\* the assistant turn is appended at most once, with the accumulated text,
\* and only when no upstream chunk is left and the buffer was flushed; at
\* most one put is issued, and only after that append; a request answered
\* 400 or 500 issues no put.
C25_PhasesInOrder == []C25_Order /\ [][C25_Append]_vars

C25_Witness ==
  \E r \in Reqs :
    /\ req[r].kind \in {"chat", "schat"}
    /\ req[r].pc = "done"
    /\ req[r].save = "settled"
    /\ req[r].faults = {}
    /\ Len(req[r].sent) = 2
    /\ req[r].ops \in { <<"get", "ai", "put", "waitUntil">>, <<"get", "waitUntil", "ai", "put">> }
    /\ store[req[r].userId].value = req[r].putValue

(***************************************************************************)
(* Properties of SpecFault: when a chat request writes                     *)
(***************************************************************************)
C28_PutIffReply ==
  \A r \in Reqs :
    req[r].kind \in {"chat", "schat"} =>
      /\ called(req[r], "put") <=> (req[r].out = "closed" /\ req[r].responseText # <<>>)
      /\ (req[r].pc = "done" /\ req[r].out = "closed" /\ req[r].responseText = <<>>) =>
           /\ req[r].save # "pending"
           /\ req[r].putValue = IdleReq.putValue

C28_Step ==
  \A r \in Reqs :
    (/\ req[r].kind \in {"chat", "schat"}
     /\ req'[r].kind = req[r].kind
     /\ req'[r].pc = "done"
     /\ req'[r].responseText = <<>>) => store' = store

\* C28: a chat request issues its put exactly when its response stream was
\* closed after the last chunk and the accumulated reply is not empty; a
\* request whose stream ends with an empty reply issues no put and leaves
\* the store as it was, so its user messages and a conversation it created
\* are not stored.
C28_WriteIffReply == []C28_PutIffReply /\ [][C28_Step]_vars

C28_Witness ==
  \E r \in Reqs :
    /\ req[r].kind = "chat"
    /\ req[r].pc = "done"
    /\ req[r].created
    /\ req[r].incoming # <<>>
    /\ req[r].sent # <<>>
    /\ req[r].out = "closed"
    /\ req[r].responseText = <<>>
    /\ ~store[req[r].userId].present

(***************************************************************************)
(* SpecRace: two requests of one user in progress at the same time in the  *)
(* multi-conversation worker                                               *)
(***************************************************************************)
RaceReqs == {"r1", "r2"}

\* the bodies and the inference streams of the requests that race
RaceBodies ==
  { b \in ValidBodies : b.messages = [isArray |-> TRUE, items |-> <<ItemString>>] }

RaceStreams == { <<>>, << EventChunk \o <<NL>>, <<NL>> \o DoneLine \o <<NL>> >> }

RaceChatReceive(r) ==
  /\ ChatReceive(r)
  /\ req'[r].body \in RaceBodies

RaceChatInfer(r) ==
  /\ ChatInfer(r)
  /\ req'[r].stream \in RaceStreams

RaceDeleteReceive(r) ==
  /\ DeleteReceive(r)
  /\ req'[r].pc = "dget"

InitRace ==
  /\ StreamIdle
  /\ store \in [AllUsers -> {NoEntry, stored(RecOne)}]
  /\ req = [r \in RaceReqs |-> IdleReq]
  /\ nChats = MaxChats - MaxRaceChats
  /\ browser = NoBrowser

NextRace ==
  \/ \E r \in RaceReqs : RaceChatReceive(r)
  \/ \E r \in RaceReqs : ChatLoad(r)
  \/ \E r \in RaceReqs : RaceChatInfer(r)
  \/ \E r \in RaceReqs : ChatTransform(r)
  \/ \E r \in RaceReqs : ChatFlush(r)
  \/ \E r \in RaceReqs : ChatPut(r)
  \/ \E r \in RaceReqs : RaceDeleteReceive(r)
  \/ \E r \in RaceReqs : DeleteLoad(r)
  \/ \E r \in RaceReqs : DeletePut(r)

SpecRace == InitRace /\ [][NextRace]_vars

\* the conversations of a mapping other than c
others(uc, c) == SelectSeq(uc, LAMBDA e : e.chatId # c)

C21_Step ==
  \A r \in RaceReqs :
    (req[r].kind = "chat" /\ req'[r].kind = "chat" /\ req[r].pc # "done") =>
      LET u == req[r].userId
          c == req[r].chatId
      IN /\ (req[r].pc = "load" /\ req'[r].pc = "infer") =>
              others(req'[r].userChats, c) = others(chatsOf(store[u]), c)
         /\ (req[r].pc \in {"infer", "stream", "saving"}) =>
              others(req'[r].userChats, c) = others(req[r].userChats, c)
         /\ (req[r].pc = "stream" /\ req'[r].pc = "saving") =>
              /\ chatOf(req'[r].userChats, c).messages = req'[r].messages
              /\ req'[r].putValue = JSONstringify(req'[r].userChats)
         /\ (req[r].pc = "saving" /\ req'[r].pc = "done") =>
              /\ store'[u].value = req[r].putValue
              /\ chatsOf(store'[u]) = req[r].userChats

\* C21: a chat request puts the whole mapping it read at its load step, with
\* only its own conversation changed, whatever was put in between; two
\* requests of one user on two chatIds that both load before either puts
\* leave a record without the conversation of the one that put first.
C21_LastWriterWins == [][C21_Step]_vars

C21_Witness ==
  \E r1, r2 \in RaceReqs :
    /\ req[r1].kind = "chat" /\ req[r2].kind = "chat"
    /\ req[r1].pc = "done" /\ req[r2].pc = "done"
    /\ req[r1].save = "settled" /\ req[r2].save = "settled"
    /\ req[r1].userId = req[r2].userId
    /\ req[r1].chatId # req[r2].chatId
    /\ req[r1].created /\ req[r2].created
    /\ store[req[r1].userId].value = req[r2].putValue
    /\ lacks(chatsOf(store[req[r1].userId]), req[r1].chatId)

\* C27 (as claimed): after a DELETE answered 200 for (userId, chatId), the put
\* of a chat request of that user on another chatId leaves the deleted chatId
\* absent from the user's record, also when that request loaded the record
\* before the delete.
C27_DeletedStaysAbsent ==
  [][ \A d, r \in RaceReqs :
        (/\ req[d].kind = "delete"
         /\ req[d].pc = "done"
         /\ req[d].status = 200
         /\ req'[d] = req[d]
         /\ req[r].kind = "chat"
         /\ req[r].userId = req[d].userId
         /\ req[r].chatId # req[d].chatId
         /\ req[r].pc = "saving"
         /\ req'[r].pc = "done"
         /\ lacks(chatsOf(store[req[d].userId]), req[d].chatId))
        => lacks(chatsOf(store'[req[d].userId]), req[d].chatId) ]_vars

(***************************************************************************)
(* SpecBrowser: the multi-conversation client (src/public/chat.js) against *)
(* the multi-conversation worker. Arrays are objects: chatHistory and the  *)
(* entries of chatCache are references into heap, so a push through one    *)
(* reference is seen through every other reference to the same array.      *)
(***************************************************************************)
TheUser == "u1"

Greeting == [role |-> "assistant", content |-> <<"H">>]

\* the text of the n-th message typed
typed(n) == [i \in 1..n |-> "m"]

chatIdsOf(chats) == { chats[i].chatId : i \in 1..Len(chats) }

\* array.push(m) through reference ref
push(heap, ref, m) == [heap EXCEPT ![ref].items = Append(@, m)]

\* selectChat(chatId) up to its await
selectChat(b, c) ==
  IF b.chatCache[c] # 0
  THEN [b EXCEPT !.currentChatId = c, !.chatHistory = b.chatCache[c]]
  ELSE [b EXCEPT !.currentChatId = c, !.pending = Append(@, c)]

\* crypto.randomUUID(): an id never used before
freshId(b) == CHOOSE c \in ChatIds : c \notin b.used

\* createNewChat(): the first unused number names the chat
createNewChat(b) ==
  LET id == freshId(b)
      name == chatName(newChatNumberFirstGap(b.chats))
  IN selectChat([b EXCEPT !.chats = Append(@, [name |-> name, chatId |-> id]),
                          !.used = @ \cup {id}],
                id)

canSelect(b, c) == b.chatCache[c] # 0 \/ Len(b.pending) < MaxPending

canCreate(b) == ChatIds \ b.used # {} /\ Len(b.pending) < MaxPending

\* DOMContentLoaded: loadChats(), then createNewChat() or selectChat(chats[0])
PageLoad ==
  /\ ~browser.loaded
  /\ LET chats == getConversations(store, TheUser).result
         b == [browser EXCEPT !.loaded = TRUE, !.userId = TheUser, !.chats = chats,
                              !.used = chatIdsOf(chats)]
     IN browser' = IF chats = <<>> THEN createNewChat(b)
                   ELSE selectChat(b, chats[1].chatId)
  /\ UNCHANGED <<streamVars, reqVars>>

\* a click on a chat of the list
SelectChat(c) ==
  /\ browser.loaded
  /\ c \in chatIdsOf(browser.chats)
  /\ canSelect(browser, c)
  /\ browser' = selectChat(browser, c)
  /\ UNCHANGED <<streamVars, reqVars>>

\* a click on the new-chat button
NewChat ==
  /\ browser.loaded
  /\ canCreate(browser)
  /\ browser' = createNewChat(browser)
  /\ UNCHANGED <<streamVars, reqVars>>

\* selectChat after its fetch of /api/history: a new array with the history,
\* or with the greeting when the history is empty, becomes chatHistory and the
\* cache entry of the chat the call was made for
SelectDone(i) ==
  /\ i \in 1..Len(browser.pending)
  /\ LET c == browser.pending[i]
         history == getChatHistory(store, browser.userId, c).result
         items == IF history = <<>> THEN <<Greeting>> ELSE history
         ref == Len(browser.heap) + 1
     IN browser' =
          [browser EXCEPT !.heap = Append(@, [owner |-> c, items |-> items]),
                          !.chatHistory = ref,
                          !.chatCache[c] = ref,
                          !.pending = SubSeq(@, 1, i - 1) \o SubSeq(@, i + 1, Len(@))]
  /\ UNCHANGED <<streamVars, reqVars>>

\* sendMessage up to its fetch: the message is pushed to chatHistory and the
\* whole array is posted for currentChatId
SendStart ==
  /\ browser.loaded
  /\ ~browser.isProcessing
  /\ browser.currentChatId # Missing
  /\ browser.turns < MaxTurns
  /\ LET m == [role |-> "user", content |-> typed(browser.turns + 1)]
         heap == push(browser.heap, browser.chatHistory, m)
     IN browser' =
          [browser EXCEPT !.isProcessing = TRUE,
                          !.turns = @ + 1,
                          !.heap = heap,
                          !.send = [state |-> "posted",
                                    chatId |-> browser.currentChatId,
                                    messages |-> heap[browser.chatHistory].items,
                                    reply |-> <<>>]]
  /\ UNCHANGED <<streamVars, reqVars>>

\* JSON.stringify of a message, read back by request.json()
toItem(m) == [type |-> "object", val |-> <<>>, role |-> m.role, content |-> Str(m.content)]

\* handleChatRequest for a posted body, from the load to the put, with reply
\* as the accumulated text
serveChat(kv, u, c, posted, reply) ==
  LET l == loadChat(kv[u], c)
      incoming == incomingMessages([isArray |-> TRUE,
                                    items |-> [i \in 1..Len(posted) |-> toItem(posted[i])]])
      msgs == Append(ensureSystemPrompt(mergeMessages(l.history, incoming)),
                     [role |-> "assistant", content |-> reply])
  IN kvPut(kv, u, JSONstringify(setMessages(l.userChats, c, msgs)), SevenDays)

\* the worker answers the POST, streams the reply and saves the turn
SendServe ==
  /\ browser.send.state = "posted"
  /\ \E reply \in { <<"r">> } :
       /\ store' = serveChat(store, browser.userId, browser.send.chatId,
                             browser.send.messages, reply)
       /\ browser' = [browser EXCEPT !.send.state = "served", !.send.reply = reply]
  /\ UNCHANGED <<streamVars, req, nChats>>

\* the fetch rejects or the response is not ok: the catch, then the finally
SendFail ==
  /\ browser.send.state = "posted"
  /\ browser' = [browser EXCEPT !.isProcessing = FALSE, !.send = NoSend]
  /\ UNCHANGED <<streamVars, reqVars>>

\* sendMessage after the read loop: chatHistory.push(...);
\* chatCache[currentChatId] = chatHistory; then the finally
sendDone(b) ==
  [b EXCEPT !.heap = push(@, b.chatHistory,
                          [role |-> "assistant", content |-> b.send.reply]),
            !.chatCache[b.currentChatId] = b.chatHistory,
            !.isProcessing = FALSE,
            !.send = NoSend]

SendDone ==
  /\ browser.send.state = "served"
  /\ browser' = sendDone(browser)
  /\ UNCHANGED <<streamVars, reqVars>>

\* deleteChat(chatId) up to its fetch
DeleteChat(c) ==
  /\ browser.loaded
  /\ c \in chatIdsOf(browser.chats)
  /\ c \notin browser.deleting
  /\ browser' = [browser EXCEPT !.deleting = @ \cup {c}]
  /\ UNCHANGED <<streamVars, reqVars>>

\* deleteChatHistory for the DELETE of the browser
serveDelete(kv, u, c) ==
  LET uc == IF kv[u].present THEN parseStored(kv[u].value) ELSE EmptyChats
  IN kvPut(kv, u, JSONstringify(deleteKey(uc, c)), SevenDays)

\* deleteChat after its fetch: the chat leaves the list; when it was the
\* current chat the first remaining chat is selected or a new one is created
DeleteDone(c) ==
  /\ c \in browser.deleting
  /\ LET chats == SelectSeq(browser.chats, LAMBDA e : e.chatId # c)
         b == [browser EXCEPT !.chats = chats, !.deleting = @ \ {c}]
     IN /\ browser.currentChatId = c =>
             IF chats # <<>> THEN canSelect(b, chats[1].chatId) ELSE canCreate(b)
        /\ browser' = IF browser.currentChatId # c THEN b
                      ELSE IF chats # <<>> THEN selectChat(b, chats[1].chatId)
                      ELSE createNewChat(b)
  /\ store' = serveDelete(store, browser.userId, c)
  /\ UNCHANGED <<streamVars, req, nChats>>

InitBrowser ==
  /\ StreamIdle
  /\ store \in { [u \in AllUsers |-> IF u = TheUser THEN e ELSE NoEntry] :
                   e \in {NoEntry, stored(RecOne)} }
  /\ req = [r \in Reqs |-> IdleReq]
  /\ nChats = 0
  /\ browser = NoBrowser

NextBrowser ==
  \/ PageLoad
  \/ \E c \in ChatIds : SelectChat(c)
  \/ NewChat
  \/ \E i \in 1..MaxPending : SelectDone(i)
  \/ SendStart
  \/ SendServe
  \/ SendFail
  \/ SendDone
  \/ \E c \in ChatIds : DeleteChat(c)
  \/ \E c \in ChatIds : DeleteDone(c)

SpecBrowser == InitBrowser /\ [][NextBrowser]_vars

(***************************************************************************)
(* Properties of SpecBrowser                                               *)
(***************************************************************************)
\* C26 (as claimed): in every conversation stored for the user, no user
\* message occurs twice: each turn sent from the browser is stored once, in
\* order, and a later turn does not store earlier turns again.
C26_TurnsStoredOnce ==
  \A k \in 1..Len(chatsOf(store[TheUser])) :
    LET ms == chatsOf(store[TheUser])[k].messages
    IN \A i, j \in 1..Len(ms) :
         (i < j /\ ms[i].role = "user" /\ ms[j].role = "user") => ms[i] # ms[j]

cached(b, c) == b.heap[b.chatCache[c]]

C29_Reply ==
  (browser.send.state = "served" /\ browser'.send.state = "none") =>
    LET c == browser.send.chatId
        turn == [role |-> "assistant", content |-> browser.send.reply]
    IN /\ browser'.chatCache[c] # 0
       /\ Last(cached(browser', c).items) = turn
       /\ \A d \in ChatIds \ {c} :
            /\ browser'.chatCache[d] = browser.chatCache[d]
            /\ browser.chatCache[d] # 0 => cached(browser', d) = cached(browser, d)

\* C29 (as claimed): when a request ends, its assistant reply is the last
\* message of the cache entry of the chat it was sent for, and the cache
\* entry and the array of every other chat are as before, whatever was
\* selected, created or deleted while the reply streamed.
C29_ReplyInOwnChat == [][C29_Reply]_vars

\* C30 (as claimed): when no selectChat fetch is pending (and no message was
\* sent yet), chatHistory is the array that was loaded for currentChatId and
\* every cache entry holds the array that was loaded for its chat.
C30_HistoryOfCurrentChat ==
  (/\ browser.loaded
   /\ browser.turns = 0
   /\ browser.pending = <<>>) =>
    /\ browser.heap[browser.chatHistory].owner = browser.currentChatId
    /\ \A c \in ChatIds : browser.chatCache[c] # 0 => cached(browser, c).owner = c

====
